---- MODULE Spec2Model ----
(***************************************************************************)
(* A model of seed-maker: the predictor graph (leaf predictors, DayRange), *)
(* the parallel seed search (SeedFinder::find_seeds and                    *)
(* SeedFinder::find_seeds_async) and the command line consumer of the      *)
(* progress channel.                                                       *)
(*                                                                         *)
(* The candidate space 0 .. i32::MAX is scaled down to 0 .. I32_MAX.  The  *)
(* game simulation of the sdv crate is outside the repository: it is       *)
(* represented by fixed total functions of the game state (Sim...), which  *)
(* the predictors call exactly where the source calls predict_...          *)
(***************************************************************************)
EXTENDS Integers, Sequences, FiniteSets, TLC

\* ------------------------------------------------------------- bounds
\* Scaled i32::MAX: the candidate seeds are 0 .. I32_MAX - 1.
I32_MAX == 3
\* Threads of the rayon pool.
NumWorkers == 2
\* Largest max_seeds a configuration is given.
MaxSeedsCap == 2
\* Longest top-level predictor list.
MaxPredictors == 2
\* Largest day a DayRange is configured with.
MaxDay == 6
\* Largest scaled i32::MAX of the runs that only count progress steps.
MaxRange == 6

Seeds == 0 .. (I32_MAX - 1)
Workers == 1 .. NumWorkers
Days == 1 .. MaxDay

\* --------------------------------------------------- helpers on sequences
Range(seq) == {seq[i] : i \in 1 .. Len(seq)}

RECURSIVE SetToSortedSeq(_)
SetToSortedSeq(S) ==
    IF S = {} THEN <<>>
    ELSE LET m == CHOOSE x \in S : \A y \in S : x <= y
         IN <<m>> \o SetToSortedSeq(S \ {m})

\* ------------------------------------------------------- the game state
\* PredictionGameState as built from SeedFinderStateConfig: defaults
\* multiplayer_id 0, daily_luck 0, geodes_cracked 1, deepest_mine_level 0.
StateFromConfig(day) ==
    [game_id |-> 0, multiplayer_id |-> 0, days_played |-> day,
     daily_luck |-> 0, geodes_cracked |-> 1, deepest_mine_level |-> 0]

\* PredictionGameState { game_id: seed, ..initial_state }
WithSeed(state, seed) == [state EXCEPT !.game_id = seed]

\* PredictionGameState { days_played: day, ..*state }
WithDay(state, day) == [state EXCEPT !.days_played = day]

\* ------------------------------------ the simulation the predictors call
\* predict_night_event: the event of the night, a function of the state.
SimNightEvent(state) ==
    IF (state.game_id + state.days_played) % 2 = 0 THEN "Fairy"
    ELSE IF state.game_id % 3 = 1 THEN "Meteor"
    ELSE "None"

\* predict_night_event takes `&mut state`: the state it was given, as it
\* leaves it (it looks at the night that follows the day).
SimNightEventState(state) == [state EXCEPT !.days_played = @ + 1]

\* predict_weather: probabilities in tenths (10 = 1.0).
SimWeather(state) ==
    LET k == (state.game_id + state.days_played) % 3
    IN [storm |-> IF k = 0 THEN 10 ELSE IF k = 1 THEN 5 ELSE 0,
        rain  |-> IF k = 2 /\ state.game_id % 2 = 0 THEN 10
                  ELSE IF k = 1 THEN 5 ELSE 0]

\* predict_single_geode: a reward, or an error for a state it has no data for.
SimGeode(state) ==
    IF (state.game_id + state.days_played) % 3 = 0
    THEN [ok |-> FALSE, item |-> "none", quantity |-> 0]
    ELSE [ok |-> TRUE,
          item |-> IF state.game_id % 2 = 1 THEN "(O)378" ELSE "(O)380",
          quantity |-> 1 + (state.days_played % 2)]

\* GarbageCanLocation::iter(): the cans, in the order they are asked.
CanLocations == <<"JodiAndKent", "Museum">>

\* predict_garbage: what a can holds for the state, if anything, or an error.
SimGarbage(can, state) ==
    LET k == (state.game_id + state.days_played) % 5
    IN IF can = "JodiAndKent"
       THEN [ok |-> TRUE, some |-> state.game_id % 3 # 2,
             item |-> IF state.game_id % 3 = 0 THEN "(O)168" ELSE "(O)999",
             quantity |-> 1]
       ELSE [ok |-> k # 4, some |-> k % 2 = 1,
             item |-> "(O)378", quantity |-> 2]

\* game_data.get_object_by_id(item)?.display_name(locale): the object data
\* has no entry for some item ids.
SimObjectName(item) ==
    CASE item = "(O)378" -> [ok |-> TRUE, name |-> "Copper Ore"]
      [] item = "(O)380" -> [ok |-> TRUE, name |-> "Iron Ore"]
      [] item = "(O)168" -> [ok |-> TRUE, name |-> "Trash"]
      [] OTHER           -> [ok |-> FALSE, name |-> ""]

\* ------------------------------------------------------- the predictors
\* A predictor is a record tagged by "type", as PredictorConfig is.
WeatherP(is_rain, is_storm, maybe_storm) ==
    [type |-> "weather", is_rain |-> is_rain, is_storm |-> is_storm,
     maybe_storm |-> maybe_storm]

NightEventP(event) == [type |-> "night_event", event |-> event]

GeodeP(item, quantity) == [type |-> "geode", item |-> item, quantity |-> quantity]

GarbageP(items) == [type |-> "garbage", items |-> items]

DayRangeP(start_day, end_day, min_matches, child) ==
    [type |-> "day_range", start_day |-> start_day, end_day |-> end_day,
     min_matches |-> min_matches, child |-> child]

\* Results of predict: Ok(true), Ok(false), Err.
Tri == {"true", "false", "err"}

BoolTri(b) == IF b THEN "true" ELSE "false"

WeatherPredict(p, state) ==
    LET weather == SimWeather(state)
    IN BoolTri((~p.is_rain \/ weather.rain + weather.storm >= 10)
               /\ (~p.is_storm \/ weather.storm >= 10)
               /\ (~p.maybe_storm \/ weather.storm >= 0))

NightEventPredict(p, state) == BoolTri(SimNightEvent(state) = p.event)

GeodePredict(p, state) ==
    LET reward == SimGeode(state)
    IN IF ~reward.ok THEN "err"
       ELSE BoolTri(reward.item = p.item /\ reward.quantity >= p.quantity)

\* A NightEvent that hands the caller's own state to the simulation.
NightEventCellsInPlace(state) ==
    [caller |-> SimNightEventState(state), work |-> SimNightEventState(state)]

\* `let mut state = state.clone(); predict_night_event(&mut state)`, in
\* NightEvent::predict and NightEvent::report alike: the caller's state and
\* the private copy, after the call.
NightEventCells(state) ==
    LET cloned == [caller |-> state, work |-> state]
    IN [cloned EXCEPT !.work = SimNightEventState(@)]

\* The caller's state after p.predict(&state) or p.report(.., &state, ..).
\* Weather, Geode and Garbage hand the shared reference to the simulation;
\* DayRange builds a new state for its child on every day.
CallerStateAfter(p, state) ==
    IF p.type = "night_event" THEN NightEventCells(state).caller ELSE state

RECURSIVE GarbageCansLoop(_, _, _)

\* `for can in &self.cans { if let Some(prediction) = predict_garbage(can,
\* state)? { results.push(prediction.0); } }`, from can i on.
GarbageCansLoop(state, i, results) ==
    IF i > Len(CanLocations) THEN [ok |-> TRUE, results |-> results]
    ELSE LET g == SimGarbage(CanLocations[i], state)
         IN IF ~g.ok THEN [ok |-> FALSE, results |-> results]
            ELSE GarbageCansLoop(state, i + 1,
                                 IF g.some THEN Append(results, g) ELSE results)

\* Garbage::predict: every configured item is among the drops of the cans.
GarbagePredict(p, state) ==
    LET cans == GarbageCansLoop(state, 1, <<>>)
    IN IF ~cans.ok THEN "err"
       ELSE BoolTri(\A j \in 1 .. Len(p.items) :
                       \E c \in 1 .. Len(cans.results) :
                           cans.results[c].item = p.items[j])

RECURSIVE Predict(_, _), DayRangeLoop(_, _, _, _, _),
          DayRangeLoopExclusive(_, _, _, _, _),
          DayRangeLoopEarlyExit(_, _, _, _, _),
          DayRangeLoopPastError(_, _, _, _, _)

\* A loop that stops asking once min_matches days have matched.
DayRangeLoopEarlyExit(p, state, day, sucesses, invoked) ==
    IF day > p.end_day \/ sucesses >= p.min_matches
    THEN [result |-> BoolTri(sucesses >= p.min_matches), invoked |-> invoked]
    ELSE LET r == Predict(p.child, WithDay(state, day))
         IN IF r = "err"
            THEN [result |-> "err", invoked |-> Append(invoked, day)]
            ELSE DayRangeLoopEarlyExit(p, state, day + 1,
                              IF r = "true" THEN sucesses + 1 ELSE sucesses,
                              Append(invoked, day))

\* A loop that takes a child's error for a day without a match and goes on.
DayRangeLoopPastError(p, state, day, sucesses, invoked) ==
    IF day > p.end_day
    THEN [result |-> BoolTri(sucesses >= p.min_matches), invoked |-> invoked]
    ELSE LET r == Predict(p.child, WithDay(state, day))
         IN DayRangeLoopPastError(p, state, day + 1,
                              IF r = "true" THEN sucesses + 1 ELSE sucesses,
                              Append(invoked, day))

\* The loop over start_day..end_day, the end excluded.
DayRangeLoopExclusive(p, state, day, sucesses, invoked) ==
    IF day >= p.end_day
    THEN [result |-> BoolTri(sucesses >= p.min_matches), invoked |-> invoked]
    ELSE LET r == Predict(p.child, WithDay(state, day))
         IN IF r = "err"
            THEN [result |-> "err", invoked |-> Append(invoked, day)]
            ELSE DayRangeLoopExclusive(p, state, day + 1,
                              IF r = "true" THEN sucesses + 1 ELSE sucesses,
                              Append(invoked, day))

\* DayRange::predict's loop from `day` on: the outcome and the days on which
\* the child was invoked.  `child.predict(&state)?` returns the error at once.
DayRangeLoop(p, state, day, sucesses, invoked) ==
    IF day > p.end_day
    THEN [result |-> BoolTri(sucesses >= p.min_matches), invoked |-> invoked]
    ELSE LET r == Predict(p.child, WithDay(state, day))
         IN IF r = "err"
            THEN [result |-> "err", invoked |-> Append(invoked, day)]
            ELSE DayRangeLoop(p, state, day + 1,
                              IF r = "true" THEN sucesses + 1 ELSE sucesses,
                              Append(invoked, day))

DayRangePredict(p, state) == DayRangeLoop(p, state, p.start_day, 0, <<>>)

Predict(p, state) ==
    CASE p.type = "weather"     -> WeatherPredict(p, state)
      [] p.type = "night_event" -> NightEventPredict(p, state)
      [] p.type = "geode"       -> GeodePredict(p, state)
      [] p.type = "garbage"     -> GarbagePredict(p, state)
      [] p.type = "day_range"   -> DayRangePredict(p, state).result

\* ---------------------------------------------------------- the reports
\* What a report writes is a sequence of pieces, each a label, a number and a
\* text.  A report returns Ok or Err; what it wrote before an error stays in
\* the writer.
Piece(label, num, text) == [label |-> label, num |-> num, text |-> text]

\* NightEvent::report: one line naming the event of the night.
NightEventReport(p, state) ==
    [ok |-> TRUE, out |-> <<Piece("Night Event", 0, SimNightEvent(state))>>]

\* Weather::report: one line, the chances above zero in per cent.
WeatherReport(p, state) ==
    LET weather == SimWeather(state)
    IN [ok |-> TRUE,
        out |-> <<Piece("Weather", 0, "")>>
                \o (IF weather.rain > 0
                    THEN <<Piece("Weather", weather.rain * 10, "Rain")>> ELSE <<>>)
                \o (IF weather.storm > 0
                    THEN <<Piece("Weather", weather.storm * 10, "Storm")>> ELSE <<>>)]

\* Geode::report: the reward (`?`), its display name (`?`), one line.
GeodeReport(p, state) ==
    LET reward == SimGeode(state)
        item_name == SimObjectName(reward.item)
    IN IF ~reward.ok THEN [ok |-> FALSE, out |-> <<>>]
       ELSE IF ~item_name.ok THEN [ok |-> FALSE, out |-> <<>>]
       ELSE [ok |-> TRUE,
             out |-> <<Piece("Geode", reward.quantity, item_name.name)>>]

RECURSIVE GarbageReportLoop(_, _, _)

\* Garbage::report's loop over the cans, from can i on.
GarbageReportLoop(state, i, out) ==
    IF i > Len(CanLocations) THEN [ok |-> TRUE, out |-> out]
    ELSE LET g == SimGarbage(CanLocations[i], state)
             item_name == IF g.item = "DISH_OF_THE_DAY"
                          THEN [ok |-> TRUE, name |-> "Dish of the Day"]
                          ELSE SimObjectName(g.item)
         IN IF ~g.ok THEN [ok |-> FALSE, out |-> out]
            ELSE IF ~g.some THEN GarbageReportLoop(state, i + 1, out)
            ELSE IF ~item_name.ok THEN [ok |-> FALSE, out |-> out]
            ELSE GarbageReportLoop(state, i + 1,
                     Append(out, Piece(CanLocations[i], g.quantity,
                                       item_name.name)))

\* Garbage::report: the heading, then a line for every can that holds
\* something.
GarbageReport(p, state) ==
    GarbageReportLoop(state, 1, <<Piece("Garbage:", 0, "")>>)

RECURSIVE Report(_, _), DayRangeReportLoop(_, _, _, _, _),
          DayRangeReportLoopAllDays(_, _, _, _, _)

\* A report loop that writes a block for every day of the interval.
DayRangeReportLoopAllDays(p, state, day, out, reported) ==
    IF day > p.end_day THEN [ok |-> TRUE, out |-> out, reported |-> reported]
    ELSE LET child == Report(p.child, WithDay(state, day))
         IN IF ~child.ok
            THEN [ok |-> FALSE, out |-> out \o <<Piece("Day", day, "")>> \o child.out,
                  reported |-> Append(reported, day)]
            ELSE DayRangeReportLoopAllDays(p, state, day + 1,
                     out \o <<Piece("Day", day, "")>> \o child.out,
                     Append(reported, day))

\* DayRange::report's loop from `day` on: on each day the child's predict is
\* asked (`?`); when it is true "Day {day} " is written and the child reports
\* (`?`).  reported: the days a block was begun for, in order.
DayRangeReportLoop(p, state, day, out, reported) ==
    IF day > p.end_day THEN [ok |-> TRUE, out |-> out, reported |-> reported]
    ELSE LET r == Predict(p.child, WithDay(state, day))
             child == Report(p.child, WithDay(state, day))
         IN IF r = "err" THEN [ok |-> FALSE, out |-> out, reported |-> reported]
            ELSE IF r = "false"
            THEN DayRangeReportLoop(p, state, day + 1, out, reported)
            ELSE IF ~child.ok
            THEN [ok |-> FALSE, out |-> out \o <<Piece("Day", day, "")>> \o child.out,
                  reported |-> Append(reported, day)]
            ELSE DayRangeReportLoop(p, state, day + 1,
                     out \o <<Piece("Day", day, "")>> \o child.out,
                     Append(reported, day))

DayRangeReport(p, state) == DayRangeReportLoop(p, state, p.start_day, <<>>, <<>>)

Report(p, state) ==
    CASE p.type = "weather"     -> WeatherReport(p, state)
      [] p.type = "night_event" -> NightEventReport(p, state)
      [] p.type = "geode"       -> GeodeReport(p, state)
      [] p.type = "garbage"     -> GarbageReport(p, state)
      [] p.type = "day_range"   ->
            LET r == DayRangeReport(p, state)
            IN [ok |-> r.ok, out |-> r.out]

\* ------------------------------------------------- the filter closure
RECURSIVE PredictorLoop(_, _, _, _), PredictorLoopEager(_, _, _, _)

\* A loop that asks every predictor and answers at the end.
PredictorLoopEager(predictors, state, i, calls) ==
    IF i > Len(predictors)
    THEN [verdict |->
              IF \E j \in 1 .. Len(predictors) : Predict(predictors[j], state) = "err"
              THEN "panic"
              ELSE BoolTri(\A j \in 1 .. Len(predictors) :
                               Predict(predictors[j], state) = "true"),
          calls |-> calls]
    ELSE PredictorLoopEager(predictors, state, i + 1, Append(calls, i))

\* A loop that returns what the first predictor says.
PredictorLoopFirstOnly(predictors, state, i, calls) ==
    IF i > Len(predictors) THEN [verdict |-> "true", calls |-> calls]
    ELSE LET r == Predict(predictors[i], state)
         IN [verdict |-> IF r = "err" THEN "panic" ELSE r,
             calls |-> Append(calls, i)]

\* `for predictor in &self.predictors { if !predictor.predict(&state).unwrap()
\* { return false; } } true`, from predictor i on.  calls: the list positions
\* whose predict was invoked, in order.  verdict "panic": unwrap on an Err.
PredictorLoop(predictors, state, i, calls) ==
    IF i > Len(predictors) THEN [verdict |-> "true", calls |-> calls]
    ELSE LET r == Predict(predictors[i], state)
         IN IF r = "err" THEN [verdict |-> "panic", calls |-> Append(calls, i)]
            ELSE IF r = "false"
            THEN [verdict |-> "false", calls |-> Append(calls, i)]
            ELSE PredictorLoop(predictors, state, i + 1, Append(calls, i))

\* The closure given to filter, on one candidate seed.
FilterSeed(f, seed) ==
    PredictorLoop(f.predictors, WithSeed(f.initial_state, seed), 1, <<>>)

\* ------------------------------------------------- SeedFinder::report
RECURSIVE FinderReportLoop(_, _, _, _, _)

\* A report loop that stops after the first predictor.
FinderReportLoopFirstOnly(predictors, state, i, out, calls) ==
    IF i > Len(predictors) THEN [ok |-> TRUE, out |-> out, calls |-> calls]
    ELSE LET r == Report(predictors[i], state)
         IN [ok |-> r.ok, out |-> out \o r.out, calls |-> Append(calls, i)]

\* `for predictor in &self.predictors { predictor.report(game_data, locale,
\* &state, writer)?; } Ok(())`, from predictor i on.  calls: the list
\* positions whose report was invoked, in order.
FinderReportLoop(predictors, state, i, out, calls) ==
    IF i > Len(predictors) THEN [ok |-> TRUE, out |-> out, calls |-> calls]
    ELSE LET r == Report(predictors[i], state)
         IN IF ~r.ok
            THEN [ok |-> FALSE, out |-> out \o r.out, calls |-> Append(calls, i)]
            ELSE FinderReportLoop(predictors, state, i + 1, out \o r.out,
                                  Append(calls, i))

\* SeedFinder::report(seed, writer), the writer empty before the call.
FinderReport(f, seed) ==
    LET state == WithSeed(f.initial_state, seed)
        run == FinderReportLoop(f.predictors, state, 1, <<>>, <<>>)
    IN [ok |-> run.ok, out |-> run.out, calls |-> run.calls, state |-> state]

\* ------------------------------------------------------ configurations
\* The top-level predictors a configuration is built from.
TopPredictors ==
    { NightEventP("Fairy"),
      GeodeP("(O)378", 1),
      DayRangeP(1, 2, 1, WeatherP(FALSE, TRUE, FALSE)) }

\* The predictor lists of the configurations: no predictor twice.
PredictorLists ==
    UNION { { ps \in [1 .. n -> TopPredictors] :
                \A i, j \in 1 .. n : ps[i] = ps[j] => i = j }
            : n \in 0 .. MaxPredictors }

\* SeedFinder::new: max_seeds, the initial state and the built predictors.
NewSeedFinder(max_seeds, day, predictors) ==
    [max_seeds |-> max_seeds, initial_state |-> StateFromConfig(day),
     predictors |-> predictors]

Finders ==
    { NewSeedFinder(n, 1, ps) : n \in 0 .. MaxSeedsCap, ps \in PredictorLists }

\* Values of the `steps` argument: 0, two inside the valid range 1 .. i32::MAX,
\* and one past it.
StepsChoices == {0, 1, 2, I32_MAX + 1}

\* ------------------------------------------------------------ messages
ProgressMsg(count) == [kind |-> "Progress", count |-> count, seeds |-> <<>>]
CompleteMsg(seeds) == [kind |-> "Complete", count |-> 0, seeds |-> seeds]

\* --------------------------------------------------------------- state
VARIABLES
    finder,           \* the SeedFinder
    mode,             \* "new", "sync" (find_seeds), "async" (find_seeds_async)
    phase,            \* "new", "running", "returned", "panicked"
    step_size,        \* i32::MAX / steps
    unclaimed,        \* candidates of the range no worker has taken yet
    remaining,        \* take_any's shared counter of elements still wanted
    wpc,              \* per worker: "idle", "step", "send", "filter", "take", "panicked"
    wseed,            \* per worker: the candidate it holds (-1: none yet)
    wold,             \* per worker, until it has sent: what fetch_add returned
    wcur,             \* per worker, until it has sent: `cur`, the count to send
    wcalls,           \* per worker: predictor positions invoked for wseed
    wverdict,         \* per worker: outcome of the filter closure for wseed
    local,            \* per worker: the seeds its folder has kept
    seeds_processed,  \* the shared AtomicUsize
    chan,             \* the mpsc channel: messages sent and not yet received
    sent,             \* every message given to tx.send, in the order of sending
    tx_alive,         \* the Sender still exists
    result,           \* the collected Vec<i32>
    cpc,              \* the holder of rx: "none", "recv" (main's loop), "done",
                      \* "panicked", "dropped" (rx was dropped)
    last_progress,    \* main's last_progress
    received,         \* the Progress counts main received, in order
    cseeds,           \* main's `seeds`
    probe             \* a single call of a predictor: its input and outcome

wvars == <<wpc, wseed, wold, wcur, wcalls, wverdict, local>>
chanvars == <<chan, sent, tx_alive>>
consvars == <<cpc, last_progress, received, cseeds>>
vars == <<finder, mode, phase, step_size, unclaimed, remaining, wvars,
          seeds_processed, chanvars, result, consvars, probe>>

\* No single call is being looked at.
NoProbe == [op |-> "none"]

\* Everything but the finder, before a search is started.
Idle ==
    /\ mode = "new"
    /\ phase = "new"
    /\ step_size = 0
    /\ unclaimed = {}
    /\ remaining = 0
    /\ wpc = [w \in Workers |-> "idle"]
    /\ wseed = [w \in Workers |-> -1]
    /\ wold = [w \in Workers |-> 0]
    /\ wcur = [w \in Workers |-> 0]
    /\ wcalls = [w \in Workers |-> <<>>]
    /\ wverdict = [w \in Workers |-> "none"]
    /\ local = [w \in Workers |-> {}]
    /\ seeds_processed = 0
    /\ chan = <<>>
    /\ sent = <<>>
    /\ tx_alive = FALSE
    /\ result = <<>>
    /\ cpc = "none"
    /\ last_progress = 0
    /\ received = <<>>
    /\ cseeds = <<>>

Init ==
    /\ finder \in Finders
    /\ Idle
    /\ probe = NoProbe

\* ---------------------------------------------------------- operations
\* find_seeds and find_seeds_async are given a SeedFinder: there is none
\* while SeedFinder::new has not been called or after it returned an error.
HaveFinder == probe.op \notin {"config", "build_failed"}

\* A take_any that lets one element too many through.
TakeAnyLimitOffByOne(f) == f.max_seeds + 1

\* `.take_any(self.max_seeds)`: how many elements the counter starts with.
TakeAnyLimit(f) == f.max_seeds

\* find_seeds is called: the range 0..i32::MAX is handed to the pool and
\* take_any(max_seeds) sets up its counter.
FindSeeds ==
    /\ HaveFinder
    /\ phase = "new"
    /\ mode' = "sync"
    /\ phase' = "running"
    /\ unclaimed' = Seeds
    /\ remaining' = TakeAnyLimit(finder)
    /\ UNCHANGED <<probe, finder, step_size, wvars, seeds_processed, chanvars,
                   result, consvars>>

\* `let step_size = i32::MAX as usize / steps;` for 1 <= steps, with `max`
\* for i32::MAX.
StepSize(max, steps) == max \div steps

\* find_seeds_async(finder, steps): `i32::MAX as usize / steps` divides by
\* zero for steps = 0 and panics in the caller, before the channel exists.
\* Otherwise the channel is made, the scan is spawned and rx goes to the
\* consumer, which starts with last_progress = 0.
FindSeedsAsync(steps) ==
    /\ HaveFinder
    /\ phase = "new"
    /\ mode' = "async"
    /\ IF steps = 0
       THEN /\ phase' = "panicked"
            /\ UNCHANGED <<step_size, unclaimed, remaining, chanvars, consvars>>
       ELSE /\ phase' = "running"
            /\ step_size' = StepSize(I32_MAX, steps)
            /\ unclaimed' = Seeds
            /\ remaining' = TakeAnyLimit(finder)
            /\ tx_alive' = TRUE
            /\ cpc' = "recv"
            /\ UNCHANGED <<chan, sent, last_progress, received, cseeds>>
    /\ UNCHANGED <<probe, finder, wvars, seeds_processed, result>>

\* A full() that gives up while one element is still wanted.
TakeAnyFullEarly == remaining <= 1

\* take_any's full(): the counter is exhausted.
TakeAnyFull == remaining = 0

\* A range that hands out a candidate and keeps it too.
RangeAfterClaimKept(seed) == unclaimed

\* The pieces the range is split into are disjoint: a candidate a worker has
\* taken is no longer in any piece.
RangeAfterClaim(seed) == unclaimed \ {seed}

\* A worker takes the next candidate of a piece of the range.  rayon asks the
\* consumer full() before every item; a full consumer takes nothing more.
Claim(w, seed) ==
    /\ phase = "running"
    /\ wpc[w] = "idle"
    /\ ~TakeAnyFull
    /\ seed \in unclaimed
    /\ unclaimed' = RangeAfterClaim(seed)
    /\ wseed' = [wseed EXCEPT ![w] = seed]
    /\ wpc' = [wpc EXCEPT ![w] = IF mode = "async" THEN "step" ELSE "filter"]
    /\ wcalls' = [wcalls EXCEPT ![w] = <<>>]
    /\ wverdict' = [wverdict EXCEPT ![w] = "none"]
    /\ UNCHANGED <<probe, finder, mode, phase, step_size, remaining, wold, wcur, local,
                   seeds_processed, chanvars, result, consvars>>

\* A closure that ends after reporting progress: the candidate on a step
\* boundary is never given to the predictors.
AfterProgressSkip == "idle"

\* After the progress `if`, the closure goes on to the state and the
\* predictor loop for the same candidate.
AfterProgress == "filter"

\* A remainder by zero that is a value other than 0: the candidate is taken
\* for one off the step boundaries and goes to the predictors.
RemainderByZeroIsNoBoundary == AfterProgress

\* `*seed as usize % step_size` with step_size = 0: the remainder panics,
\* in the worker that evaluates it.
RemainderByZero == "panicked"

\* A `cur` that is the counter's value after the increment.
CurOfNewValue(old, step) == old + step

\* `cur`: what the worker computes from the value fetch_add returned.
CurOf(old, step) == old + 1

\* `if *seed as usize % step_size == 0 { let cur = seeds_processed
\* .fetch_add(step_size, Relaxed) + 1; ...`.  A step_size of 0 makes the
\* remainder panic.
StepBoundary(w) ==
    /\ phase = "running"
    /\ wpc[w] = "step"
    /\ IF step_size = 0
       THEN /\ wpc' = [wpc EXCEPT ![w] = RemainderByZero]
            /\ UNCHANGED <<wold, wcur, seeds_processed>>
       ELSE IF wseed[w] % step_size = 0
       THEN /\ seeds_processed' = seeds_processed + step_size
            /\ wold' = [wold EXCEPT ![w] = seeds_processed]
            /\ wcur' = [wcur EXCEPT ![w] = CurOf(seeds_processed, step_size)]
            /\ wpc' = [wpc EXCEPT ![w] = "send"]
       ELSE /\ wpc' = [wpc EXCEPT ![w] = AfterProgress]
            /\ UNCHANGED <<wold, wcur, seeds_processed>>
    /\ UNCHANGED <<probe, finder, mode, phase, step_size, unclaimed, remaining, wseed,
                   wcalls, wverdict, local, chanvars, result, consvars>>

\* The channel after tx.send(msg): the channel is unbounded, so the message
\* is queued at once; with the Receiver gone send returns an Err, which
\* `let _ =` discards, and nothing is queued.
TxSend(msg) == IF cpc = "dropped" THEN chan ELSE Append(chan, msg)

\* `let _ = tx.send(Progress::Progress(cur));`
SendProgress(w) ==
    /\ phase = "running"
    /\ wpc[w] = "send"
    /\ chan' = TxSend(ProgressMsg(wcur[w]))
    /\ sent' = Append(sent, ProgressMsg(wcur[w]))
    /\ wpc' = [wpc EXCEPT ![w] = AfterProgress]
    /\ wold' = [wold EXCEPT ![w] = 0]
    /\ wcur' = [wcur EXCEPT ![w] = 0]
    /\ UNCHANGED <<probe, finder, mode, phase, step_size, unclaimed, remaining, wseed,
                   wcalls, wverdict, local, seeds_processed, tx_alive, result,
                   consvars>>

\* The predictor loop of the closure on the worker's candidate.
Filter(w) ==
    /\ phase = "running"
    /\ wpc[w] = "filter"
    /\ LET out == FilterSeed(finder, wseed[w])
       IN /\ wcalls' = [wcalls EXCEPT ![w] = out.calls]
          /\ wverdict' = [wverdict EXCEPT ![w] = out.verdict]
          /\ wpc' = [wpc EXCEPT ![w] =
                        CASE out.verdict = "true"  -> "take"
                          [] out.verdict = "false" -> "idle"
                          [] out.verdict = "panic" -> "panicked"]
    /\ UNCHANGED <<probe, finder, mode, phase, step_size, unclaimed, remaining, wseed,
                   wold, wcur, local, seeds_processed, chanvars, result, consvars>>

\* take_any's consume: checked_decrement of the shared counter; the item goes
\* to the worker's own folder only when the decrement succeeded.
TakeAnyConsume(w) ==
    /\ phase = "running"
    /\ wpc[w] = "take"
    /\ IF remaining > 0
       THEN /\ remaining' = remaining - 1
            /\ local' = [local EXCEPT ![w] = local[w] \cup {wseed[w]}]
       ELSE UNCHANGED <<remaining, local>>
    /\ wpc' = [wpc EXCEPT ![w] = "idle"]
    /\ UNCHANGED <<probe, finder, mode, phase, step_size, unclaimed, wseed, wold, wcur,
                   wcalls, wverdict, seeds_processed, chanvars, result, consvars>>

\* A scan declared over while workers still hold items.
ScanOverNoDrain ==
    /\ phase = "running"
    /\ (unclaimed = {} \/ TakeAnyFull)

\* The parallel iterator is over: no worker holds an item, and the range is
\* used up or the consumer is full.
ScanOver ==
    /\ phase = "running"
    /\ \A w \in Workers : wpc[w] = "idle"
    /\ (unclaimed = {} \/ TakeAnyFull)

\* A collect that keeps one worker's folder and drops the others.
CollectedOneFolder == SetToSortedSeq(local[CHOOSE w \in Workers : TRUE])

\* collect(): the workers' folders joined in range order.
Collected == SetToSortedSeq(UNION {local[w] : w \in Workers})

\* collect() returns; find_seeds returns the vector, find_seeds_async sends
\* Complete and drops tx at the end of the spawned closure.
Collect ==
    /\ ScanOver
    /\ phase' = "returned"
    /\ result' = Collected
    /\ IF mode = "async"
       THEN /\ chan' = TxSend(CompleteMsg(Collected))
            /\ sent' = Append(sent, CompleteMsg(Collected))
            /\ tx_alive' = FALSE
       ELSE UNCHANGED chanvars
    /\ UNCHANGED <<probe, finder, mode, step_size, unclaimed, remaining, wvars,
                   seeds_processed, consvars>>

\* A worker panicked and the others hold no item: the panic leaves the
\* parallel iterator.  find_seeds unwinds into its caller; the closure given
\* to rayon::spawn unwinds, so tx goes without a Complete.
PanicPropagates ==
    /\ phase = "running"
    /\ \E w \in Workers : wpc[w] = "panicked"
    /\ \A w \in Workers : wpc[w] \in {"idle", "panicked"}
    /\ phase' = "panicked"
    /\ tx_alive' = FALSE
    /\ UNCHANGED <<probe, finder, mode, step_size, unclaimed, remaining, wvars,
                   seeds_processed, chan, sent, result, consvars>>

\* main's loop: `match progress.recv().unwrap()`.
RecvProgress ==
    /\ cpc = "recv"
    /\ chan # <<>>
    /\ Head(chan).kind = "Progress"
    /\ chan' = Tail(chan)
    /\ received' = Append(received, Head(chan).count)
    /\ \/ /\ last_progress' = Head(chan).count
          /\ cpc' = cpc
       \/ \* `(seeds_processed as u64) - last_progress` underflows: a build
          \* with overflow checks panics, one without wraps and goes on.
          /\ Head(chan).count < last_progress
          /\ cpc' = "panicked"
          /\ UNCHANGED last_progress
    /\ UNCHANGED <<probe, finder, mode, phase, step_size, unclaimed, remaining, wvars,
                   seeds_processed, sent, tx_alive, result, cseeds>>

RecvComplete ==
    /\ cpc = "recv"
    /\ chan # <<>>
    /\ Head(chan).kind = "Complete"
    /\ chan' = Tail(chan)
    /\ cseeds' = Head(chan).seeds
    /\ cpc' = "done"
    /\ UNCHANGED <<probe, finder, mode, phase, step_size, unclaimed, remaining, wvars,
                   seeds_processed, sent, tx_alive, result, last_progress,
                   received>>

\* recv() on an empty channel whose Sender is gone is an Err; unwrap panics.
RecvDisconnected ==
    /\ cpc = "recv"
    /\ chan = <<>>
    /\ ~tx_alive
    /\ cpc' = "panicked"
    /\ UNCHANGED <<probe, finder, mode, phase, step_size, unclaimed, remaining, wvars,
                   seeds_processed, chanvars, result, last_progress, received,
                   cseeds>>

Next ==
    \/ FindSeeds
    \/ \E steps \in StepsChoices : FindSeedsAsync(steps)
    \/ \E w \in Workers, seed \in Seeds : Claim(w, seed)
    \/ \E w \in Workers : StepBoundary(w)
    \/ \E w \in Workers : SendProgress(w)
    \/ \E w \in Workers : Filter(w)
    \/ \E w \in Workers : TakeAnyConsume(w)
    \/ Collect
    \/ PanicPropagates
    \/ RecvProgress
    \/ RecvComplete
    \/ RecvDisconnected

Spec == Init /\ [][Next]_vars

\* Fair scheduling: a worker that holds an item or can take one goes on, the
\* parallel iterator ends when it can, and main keeps calling recv.
WorkerStep(w) ==
    \/ \E seed \in Seeds : Claim(w, seed)
    \/ StepBoundary(w)
    \/ SendProgress(w)
    \/ Filter(w)
    \/ TakeAnyConsume(w)

Fairness ==
    /\ \A w \in Workers : WF_vars(WorkerStep(w))
    /\ WF_vars(Collect)
    /\ WF_vars(PanicPropagates)
    /\ WF_vars(RecvProgress \/ RecvComplete \/ RecvDisconnected)

FairSpec == Init /\ [][Next]_vars /\ Fairness

\* ------------------------------------- two searches with one finder
\* find_seeds takes &self and find_seeds_async an Arc<Self>: a finder whose
\* find_seeds has returned is searched again.  The vector the first search
\* returned stays with the caller.
SearchAgain ==
    /\ mode = "sync"
    /\ phase = "returned"
    /\ probe = NoProbe
    /\ probe' = [op |-> "find_seeds", seeds |-> result]
    /\ mode' = "new"
    /\ phase' = "new"
    /\ step_size' = 0
    /\ unclaimed' = {}
    /\ remaining' = 0
    /\ wpc' = [w \in Workers |-> "idle"]
    /\ wseed' = [w \in Workers |-> -1]
    /\ wold' = [w \in Workers |-> 0]
    /\ wcur' = [w \in Workers |-> 0]
    /\ wcalls' = [w \in Workers |-> <<>>]
    /\ wverdict' = [w \in Workers |-> "none"]
    /\ local' = [w \in Workers |-> {}]
    /\ seeds_processed' = 0
    /\ result' = <<>>
    /\ UNCHANGED <<finder, chanvars, consvars>>

NextTwice == Next \/ SearchAgain

SpecTwice == Init /\ [][NextTwice]_vars

\* ---------------------------------------- a caller that drops the receiver
\* The caller of find_seeds_async lets go of the Receiver it was given;
\* what was queued goes with it.
DropReceiver ==
    /\ cpc = "recv"
    /\ cpc' = "dropped"
    /\ chan' = <<>>
    /\ UNCHANGED <<probe, finder, mode, phase, step_size, unclaimed, remaining, wvars,
                   seeds_processed, sent, tx_alive, result, last_progress,
                   received, cseeds>>

NextDetached == Next \/ DropReceiver

SpecDetached == Init /\ [][NextDetached]_vars

\* --------------------------------------- single calls of SeedFinder::report
\* The predictors of the finders that are asked for reports.
ReportPredictors ==
    { NightEventP("Fairy"),
      GeodeP("(O)378", 1),
      GarbageP(<<>>),
      DayRangeP(1, 2, 1, WeatherP(FALSE, TRUE, FALSE)) }

ReportPredictorLists ==
    UNION { { ps \in [1 .. n -> ReportPredictors] :
                \A i, j \in 1 .. n : ps[i] = ps[j] => i = j }
            : n \in 0 .. MaxPredictors }

ReportFinders ==
    { NewSeedFinder(n, 1, ps) : n \in 0 .. MaxSeedsCap, ps \in ReportPredictorLists }

\* A finder and the seed a report is asked for are drawn; nothing is searched.
InitReport ==
    /\ finder \in ReportFinders
    /\ Idle
    /\ \E seed \in Seeds :
          probe = [op |-> "report_drawn", seed |-> seed, finder |-> finder]

\* SeedFinder::report(&self, .., seed, writer) on the drawn seed.
CallFinderReport ==
    /\ probe.op = "report_drawn"
    /\ probe' = [op |-> "finder_report", seed |-> probe.seed,
                 finder |-> probe.finder, run |-> FinderReport(finder, probe.seed)]
    /\ UNCHANGED <<finder, mode, phase, step_size, unclaimed, remaining, wvars,
                   seeds_processed, chanvars, result, consvars>>

NextReport == CallFinderReport

SpecReport == InitReport /\ [][NextReport]_vars

\* ------------------------------------------------ building the finder
\* What SeedFinder::new is given of the game data: whether it has the
\* "Default" location context and whether it has the geode data.
GameDatas ==
    { [default_context |-> TRUE,  geodes |-> TRUE,  garbage_cans |-> TRUE],
      [default_context |-> FALSE, geodes |-> TRUE,  garbage_cans |-> TRUE],
      [default_context |-> TRUE,  geodes |-> FALSE, garbage_cans |-> FALSE] }

\* `name.parse::<ItemId>()`: the strings that are item ids.
ParsesAsItemId(item) ==
    item \in {"(O)378", "(O)380", "(O)168", "(O)999", "DISH_OF_THE_DAY"}

\* RngType and the SeedGenerator it stands for.
RngTypes == {"hashed", "legacy"}

GeneratorOf(rng_type) ==
    IF rng_type = "hashed" THEN "HashedSeedGenerator" ELSE "LegacySeedGenerator"

\* A DayRange that always builds its child for the hashed generator.
ChildGeneratorAlwaysHashed(G) == "HashedSeedGenerator"

\* DayRange::<G>::new builds its child with `config.child.predictor::<G>`.
ChildGenerator(G) == G

RECURSIVE BuildPredictor(_, _, _)

\* PredictorConfig::predictor::<G>(game_data): the predictor, built for the
\* generator G (field rng), or an error.
BuildPredictor(config, G, game_data) ==
    CASE config.type = "weather" ->
            IF ~game_data.default_context THEN [ok |-> FALSE]
            ELSE [ok |-> TRUE,
                  p |-> [type |-> "weather", is_rain |-> config.is_rain,
                         is_storm |-> config.is_storm,
                         maybe_storm |-> config.maybe_storm, rng |-> G]]
      [] config.type = "night_event" ->
            [ok |-> TRUE,
             p |-> [type |-> "night_event", event |-> config.event, rng |-> G]]
      [] config.type = "geode" ->
            IF ~ParsesAsItemId(config.item) \/ ~game_data.geodes THEN [ok |-> FALSE]
            ELSE [ok |-> TRUE,
                  p |-> [type |-> "geode", item |-> config.item,
                         quantity |-> config.quantity, rng |-> G]]
      [] config.type = "garbage" ->
            IF ~game_data.garbage_cans
               \/ \E j \in 1 .. Len(config.items) : ~ParsesAsItemId(config.items[j])
            THEN [ok |-> FALSE]
            ELSE [ok |-> TRUE,
                  p |-> [type |-> "garbage", items |-> config.items, rng |-> G]]
      [] config.type = "day_range" ->
            LET child == BuildPredictor(config.child, ChildGenerator(G), game_data)
            IN IF ~child.ok THEN [ok |-> FALSE]
               ELSE [ok |-> TRUE,
                     p |-> [type |-> "day_range", start_day |-> config.start_day,
                            end_day |-> config.end_day,
                            min_matches |-> config.min_matches,
                            child |-> child.p, rng |-> G]]

RECURSIVE BuildList(_, _, _, _, _), BuildListSkipFailed(_, _, _, _, _)

\* A build that leaves out the predictors that fail to build.
BuildListSkipFailed(configs, G, game_data, i, built) ==
    IF i > Len(configs) THEN [ok |-> TRUE, predictors |-> built]
    ELSE LET b == BuildPredictor(configs[i], G, game_data)
         IN BuildListSkipFailed(configs, G, game_data, i + 1,
                                IF b.ok THEN Append(built, b.p) ELSE built)

\* `.map(|config| config.predictor::<G>(game_data)).collect::<Result<Vec<_>>>()?`
\* from config i on: the first error ends the collect and is returned.
BuildList(configs, G, game_data, i, built) ==
    IF i > Len(configs) THEN [ok |-> TRUE, predictors |-> built]
    ELSE LET b == BuildPredictor(configs[i], G, game_data)
         IN IF ~b.ok THEN [ok |-> FALSE, predictors |-> <<>>]
            ELSE BuildList(configs, G, game_data, i + 1, Append(built, b.p))

\* SeedFinder::new(game_data, config): the generator is chosen by
\* `match config.rng_type`, once, for the whole list.
SeedFinderNew(game_data, config) ==
    LET built == BuildList(config.predictors, GeneratorOf(config.rng_type),
                           game_data, 1, <<>>)
    IN IF ~built.ok THEN [ok |-> FALSE]
       ELSE [ok |-> TRUE,
             finder |-> NewSeedFinder(config.max_seeds, config.day,
                                      built.predictors)]

\* The predictor configurations main's config file is made of.
BuildPredictorConfigs ==
    { NightEventP("Fairy"),
      GeodeP("(O)378", 1),
      GeodeP("bogus", 1),
      DayRangeP(1, 2, 1, DayRangeP(1, 1, 1, WeatherP(FALSE, TRUE, FALSE))),
      DayRangeP(1, 1, 0, DayRangeP(1, 1, 0, GeodeP("bogus", 1))) }

BuildConfigLists ==
    UNION { { ps \in [1 .. n -> BuildPredictorConfigs] :
                \A i, j \in 1 .. n : ps[i] = ps[j] => i = j }
            : n \in 0 .. MaxPredictors }

SeedFinderConfigs ==
    { [rng_type |-> r, max_seeds |-> 1, day |-> 1, predictors |-> ps] :
        r \in RngTypes, ps \in BuildConfigLists }

\* No SeedFinder has been built.
NoFinder == [max_seeds |-> 0, initial_state |-> StateFromConfig(0),
             predictors |-> <<>>, none |-> TRUE]

\* main has loaded the game data and parsed the configuration.
InitBuild ==
    /\ finder = NoFinder
    /\ Idle
    /\ \E game_data \in GameDatas, config \in SeedFinderConfigs :
          probe = [op |-> "config", game_data |-> game_data, config |-> config]

\* `SeedFinder::new(&game_data, &config).unwrap()`: on an error main panics
\* here, before find_seeds_async is reached.
CallSeedFinderNew ==
    /\ probe.op = "config"
    /\ LET new == SeedFinderNew(probe.game_data, probe.config)
       IN IF new.ok
          THEN /\ finder' = new.finder
               /\ probe' = [probe EXCEPT !.op = "built"]
          ELSE /\ finder' = finder
               /\ probe' = [probe EXCEPT !.op = "build_failed"]
    /\ UNCHANGED <<mode, phase, step_size, unclaimed, remaining, wvars,
                   seeds_processed, chanvars, result, consvars>>

NextBuild == CallSeedFinderNew \/ Next

SpecBuild == InitBuild /\ [][NextBuild]_vars

\* ------------------------------------------------ main's report loop
\* The seed lists a search with the finder can hand to main: matching seeds
\* in range order, max_seeds of them or all when there are no more.
FoundLists(f) ==
    LET all == {s \in Seeds :
                   \A i \in 1 .. Len(f.predictors) :
                       Predict(f.predictors[i], WithSeed(f.initial_state, s)) = "true"}
        n == IF Cardinality(all) <= f.max_seeds THEN Cardinality(all)
             ELSE f.max_seeds
    IN {SetToSortedSeq(S) : S \in {T \in SUBSET all : Cardinality(T) = n}}

\* main after its receive loop, with `seeds` taken from Complete.
InitMain ==
    /\ finder \in ReportFinders
    /\ Idle
    /\ \E seeds \in FoundLists(finder) :
          probe = [op |-> "main", seeds |-> seeds, i |-> 1, notes |-> <<>>,
                   status |-> "reporting"]

\* One turn of `for seed in &seeds`: `finder.report(.., *seed, &mut buf)?`
\* returns the error from main; otherwise the report is shown as a note.
MainReportSeed ==
    /\ probe.op = "main"
    /\ probe.status = "reporting"
    /\ probe.i <= Len(probe.seeds)
    /\ LET seed == probe.seeds[probe.i]
           r == FinderReport(finder, seed)
       IN probe' = IF r.ok
                   THEN [probe EXCEPT !.i = probe.i + 1,
                                      !.notes = Append(probe.notes,
                                                       [seed |-> seed, report |-> r.out])]
                   ELSE [probe EXCEPT !.status = "failed"]
    /\ UNCHANGED <<finder, mode, phase, step_size, unclaimed, remaining, wvars,
                   seeds_processed, chanvars, result, consvars>>

\* The loop is through: `outro(..)`, `Ok(())`.
MainOutro ==
    /\ probe.op = "main"
    /\ probe.status = "reporting"
    /\ probe.i > Len(probe.seeds)
    /\ probe' = [probe EXCEPT !.status = "finished"]
    /\ UNCHANGED <<finder, mode, phase, step_size, unclaimed, remaining, wvars,
                   seeds_processed, chanvars, result, consvars>>

NextMain == MainReportSeed \/ MainOutro

SpecMain == InitMain /\ [][NextMain]_vars

\* ------------------------------------------ the progress steps of a scan
\* A scan of 0 .. max that never fills take_any, looked at for its progress
\* only: the candidates on a step boundary, still to be met by some worker in
\* some order, the shared counter and the counts sent.
InitSteps ==
    /\ finder = NewSeedFinder(0, 1, <<>>)
    /\ Idle
    /\ \E max \in 1 .. MaxRange :
          \E steps \in 1 .. max :
              probe = [op |-> "steps", max |-> max, steps |-> steps,
                       step_size |-> StepSize(max, steps),
                       pending |-> {s \in 0 .. (max - 1) :
                                       s % StepSize(max, steps) = 0},
                       counter |-> 0, values |-> <<>>]

\* A worker meets the candidate `seed`, which is on a step boundary:
\* fetch_add(step_size), then send Progress(cur).
CrossBoundary(seed) ==
    /\ probe.op = "steps"
    /\ seed \in probe.pending
    /\ probe' = [probe EXCEPT
                    !.pending = @ \ {seed},
                    !.counter = @ + probe.step_size,
                    !.values = Append(@, CurOf(probe.counter, probe.step_size))]
    /\ UNCHANGED <<finder, mode, phase, step_size, unclaimed, remaining, wvars,
                   seeds_processed, chanvars, result, consvars>>

NextSteps == \E seed \in 0 .. (MaxRange - 1) : CrossBoundary(seed)

SpecSteps == InitSteps /\ [][NextSteps]_vars

\* -------------------------------------------- single calls of Weather
\* The Weather predictors: every setting of the three flags.
WeatherConfigs ==
    { WeatherP(r, st, m) : r \in BOOLEAN, st \in BOOLEAN, m \in BOOLEAN }

\* A Weather predictor and the state it is called with are drawn.
InitWeather ==
    /\ finder = NewSeedFinder(0, 1, <<>>)
    /\ Idle
    /\ \E p \in WeatherConfigs, seed \in Seeds, day \in Days :
          probe = [op |-> "weather_drawn", p |-> p,
                   state |-> WithSeed(StateFromConfig(day), seed)]

\* Weather::predict on the drawn input.
CallWeatherPredict ==
    /\ probe.op = "weather_drawn"
    /\ probe' = [op |-> "weather_predict", p |-> probe.p, state |-> probe.state,
                 weather |-> SimWeather(probe.state),
                 result |-> WeatherPredict(probe.p, probe.state)]
    /\ UNCHANGED <<finder, mode, phase, step_size, unclaimed, remaining, wvars,
                   seeds_processed, chanvars, result, consvars>>

NextWeather == CallWeatherPredict

SpecWeather == InitWeather /\ [][NextWeather]_vars

\* ------------------------------------------- single calls of DayRange
\* The children a DayRange is given in single calls.
ChildPredictors ==
    { NightEventP("Fairy"),
      WeatherP(TRUE, FALSE, FALSE),
      GeodeP("(O)378", 1),
      GarbageP(<<>>),
      DayRangeP(1, 2, 1, NightEventP("Fairy")) }

DayRangeConfigs ==
    { DayRangeP(s, e, m, c) :
        s \in Days, e \in Days, m \in 0 .. (MaxDay + 1), c \in ChildPredictors }

\* A DayRange and the state it is called with are drawn; nothing is searched.
InitCalls ==
    /\ finder = NewSeedFinder(0, 1, <<>>)
    /\ Idle
    /\ \E p \in DayRangeConfigs, seed \in Seeds :
          probe = [op |-> "drawn", p |-> p,
                   state |-> WithSeed(StateFromConfig(1), seed)]

\* What a call of the DayRange p on `state` leaves behind: the states its
\* child was given on the days `days`, each as the child's call left it, and
\* the caller's state.
CallFrame(p, state, days) ==
    [passed |-> [i \in 1 .. Len(days) |-> WithDay(state, days[i])],
     child_after |-> [i \in 1 .. Len(days) |->
                         CallerStateAfter(p.child, WithDay(state, days[i]))],
     after |-> CallerStateAfter(p, state)]

\* DayRange::predict on the drawn input.
CallDayRangePredict ==
    /\ probe.op = "drawn"
    /\ LET out == DayRangePredict(probe.p, probe.state)
       IN probe' = [op |-> "predict", p |-> probe.p, state |-> probe.state,
                    out |-> out,
                    frame |-> CallFrame(probe.p, probe.state, out.invoked)]
    /\ UNCHANGED <<finder, mode, phase, step_size, unclaimed, remaining, wvars,
                   seeds_processed, chanvars, result, consvars>>

\* DayRange::report on the drawn input, the writer empty before the call.
CallDayRangeReport ==
    /\ probe.op = "drawn"
    /\ LET out == DayRangeReport(probe.p, probe.state)
       IN probe' = [op |-> "report", p |-> probe.p, state |-> probe.state,
                    out |-> out,
                    frame |-> CallFrame(probe.p, probe.state, out.reported)]
    /\ UNCHANGED <<finder, mode, phase, step_size, unclaimed, remaining, wvars,
                   seeds_processed, chanvars, result, consvars>>

NextCalls == CallDayRangePredict \/ CallDayRangeReport

SpecCalls == InitCalls /\ [][NextCalls]_vars

\* =============================================================== claims
\* What "the seed satisfies every top-level predictor" means: each predict,
\* asked alone on the state derived from the seed, returns Ok(true).
Matches(f, seed) ==
    \A i \in 1 .. Len(f.predictors) :
        Predict(f.predictors[i], WithSeed(f.initial_state, seed)) = "true"

MatchingSeeds(f) == {s \in Seeds : Matches(f, s)}

\* The lists a search has handed out: what find_seeds returned, what a
\* Complete message carries, what main took from Complete.
ReturnedLists ==
    (IF mode = "sync" /\ phase = "returned" THEN {result} ELSE {})
    \cup {sent[i].seeds : i \in {j \in 1 .. Len(sent) : sent[j].kind = "Complete"}}
    \cup (IF cpc = "done" THEN {cseeds} ELSE {})

\* C1: a returned list (find_seeds' result, Complete's payload) has at most
\* max_seeds elements, and each of its seeds makes every top-level predictor
\* return true on the initial state with only the seed replaced.
C1_ReturnedListWithinCapAndValid ==
    \A l \in ReturnedLists :
        /\ Len(l) <= finder.max_seeds
        /\ \A i \in 1 .. Len(l) :
              /\ l[i] \in Seeds
              /\ \A k \in 1 .. Len(finder.predictors) :
                    Predict(finder.predictors[k],
                            [finder.initial_state EXCEPT !.game_id = l[i]]) = "true"

C1_Witness ==
    /\ mode = "async"
    /\ cpc = "done"
    /\ Len(cseeds) = 2
    /\ finder.max_seeds = 2
    /\ Len(finder.predictors) >= 1

\* C2: when at most max_seeds seeds of the space match, a returned list holds
\* exactly the matching seeds: nothing a worker found is lost, nothing else
\* is in it.
C2_ExactMatchSetWhenWithinCap ==
    \A l \in ReturnedLists :
        Cardinality(MatchingSeeds(finder)) <= finder.max_seeds
            => Range(l) = MatchingSeeds(finder)

C2_Witness ==
    /\ mode = "sync"
    /\ phase = "returned"
    /\ Cardinality(MatchingSeeds(finder)) = 2
    /\ finder.max_seeds = 2
    /\ \A w \in Workers : local[w] # {}
    /\ Len(result) = 2

\* C3: when more seeds match than max_seeds, a returned list has exactly
\* max_seeds distinct seeds, all matching; max_seeds = 0 gives the empty list.
C3_ExactlyCapWhenMoreMatch ==
    \A l \in ReturnedLists :
        /\ Cardinality(MatchingSeeds(finder)) > finder.max_seeds
              => /\ Len(l) = finder.max_seeds
                 /\ Cardinality(Range(l)) = finder.max_seeds
                 /\ Range(l) \subseteq MatchingSeeds(finder)
        /\ finder.max_seeds = 0 => l = <<>>

\* The cap was reached while another worker held a matching seed, which
\* was then dropped.
C3_Witness ==
    /\ phase = "returned"
    /\ finder.max_seeds >= 1
    /\ Cardinality(MatchingSeeds(finder)) > finder.max_seeds
    /\ \E w \in Workers : wverdict[w] = "true" /\ wseed[w] \notin Range(result)

\* What predictor i of the finder answers on the seed, asked alone.
Answer(i, seed) ==
    Predict(finder.predictors[i], WithSeed(finder.initial_state, seed))

\* C4: for a candidate the predictors are asked in list order from the first
\* on, and nothing is asked after the first one that does not return true:
\* no predictor behind a false one is invoked (find_seeds and
\* find_seeds_async share the worker's loop).
C4_LeftToRightStopAtFirstFalse ==
    \A w \in Workers :
        wverdict[w] # "none" =>
            LET c == wcalls[w]
                n == Len(finder.predictors)
            IN /\ Len(c) <= n
               /\ \A j \in 1 .. Len(c) : c[j] = j
               /\ \A j \in 1 .. Len(c) :
                     j < Len(c) => Answer(j, wseed[w]) = "true"
               /\ Len(c) < n => Answer(Len(c), wseed[w]) # "true"
               /\ \A i \in 1 .. n :
                     Answer(i, wseed[w]) = "false"
                         => \A j \in 1 .. Len(c) : c[j] <= i
               /\ wverdict[w] = "false" => Answer(Len(c), wseed[w]) = "false"

C4_Witness ==
    \E w \in Workers :
        /\ mode = "async"
        /\ wverdict[w] = "false"
        /\ wcalls[w] = <<1>>
        /\ Len(finder.predictors) = 2

\* The list in another order.
Reorder(predictors, pi) == [i \in 1 .. Len(predictors) |-> predictors[pi[i]]]

\* C5: the closure accepts a seed exactly when every predictor of the list
\* returns true on it, and so does the loop run over any reordering of the
\* list; a reordering changes how many predictors are asked, not acceptance.
C5_ShortCircuitEqualsConjunction ==
    \A w \in Workers :
        wverdict[w] # "none" =>
            LET st == WithSeed(finder.initial_state, wseed[w])
                all == \A i \in 1 .. Len(finder.predictors) :
                           Predict(finder.predictors[i], st) = "true"
            IN /\ (wverdict[w] = "true") = all
               /\ wverdict[w] = "false" =>
                     \E i \in 1 .. Len(finder.predictors) :
                         Predict(finder.predictors[i], st) = "false"
               /\ \A pi \in Permutations(1 .. Len(finder.predictors)) :
                     LET out == PredictorLoop(Reorder(finder.predictors, pi),
                                              st, 1, <<>>)
                     IN /\ (out.verdict = "true") = all
                        /\ Len(out.calls) <= Len(finder.predictors)

\* A rejected seed for which the reversed list asks a different number of
\* predictors.
C5_Witness ==
    \E w \in Workers :
        /\ wverdict[w] = "false"
        /\ Len(finder.predictors) = 2
        /\ Len(wcalls[w]) = 1
        /\ Len(PredictorLoop(Reorder(finder.predictors, <<2, 1>>),
                             WithSeed(finder.initial_state, wseed[w]),
                             1, <<>>).calls) = 2

\* ------------------------------------------------------------ DayRange
\* The days of the interval on which the child, asked alone on the state with
\* days_played set to the day, returns r.
DaysAnswering(p, state, r) ==
    {d \in p.start_day .. p.end_day :
        Predict(p.child, [state EXCEPT !.days_played = d]) = r}

\* C6 as stated: DayRange.predict returns true exactly when the number of
\* days of [start_day, end_day] on which the child returns true is at least
\* min_matches.
C6_Original_TrueIffQuorum ==
    probe.op = "predict" =>
        ((probe.out.result = "true")
            = (Cardinality(DaysAnswering(probe.p, probe.state, "true"))
                   >= probe.p.min_matches))

\* C6 amended: if the child returns an error on some day of the interval,
\* predict returns an error; otherwise it returns true when the number of days
\* on which the child returns true is at least min_matches and false when it
\* is not.  With start_day > end_day nothing is asked and the result is true
\* exactly when min_matches = 0.
C6_QuorumUnlessChildErrs ==
    probe.op = "predict" =>
        LET p == probe.p
            count == Cardinality(DaysAnswering(p, probe.state, "true"))
        IN /\ DaysAnswering(p, probe.state, "err") # {}
                 => probe.out.result = "err"
           /\ DaysAnswering(p, probe.state, "err") = {}
                 => probe.out.result = BoolTri(count >= p.min_matches)
           /\ p.start_day > p.end_day
                 => /\ probe.out.invoked = <<>>
                    /\ (probe.out.result = "true") = (p.min_matches = 0)

\* The quorum example: the interval [1, 6], a child true on the even days
\* only, min_matches = 3.
C6_Witness ==
    /\ probe.op = "predict"
    /\ probe.p.start_day = 1
    /\ probe.p.end_day = 6
    /\ probe.p.min_matches = 3
    /\ DaysAnswering(probe.p, probe.state, "true") = {2, 4, 6}
    /\ DaysAnswering(probe.p, probe.state, "err") = {}
    /\ probe.out.result = "true"

\* ------------------------------------------------------------ progress
\* C7 as stated: the Progress counts reach the consumer in non-decreasing
\* order, so main's `seeds_processed - last_progress` is never negative.
C7_ReceivedCountsNonDecreasing ==
    \A i, j \in 1 .. Len(received) : i < j => received[i] <= received[j]

\* C8 as stated: the count a worker is about to send is the value the shared
\* counter had right after that worker's own fetch_add.
C8_SentCountIsCounterAfterIncrement ==
    \A w \in Workers : wpc[w] = "send" => wcur[w] = wold[w] + step_size

\* The positions of the Complete messages among everything sent.
CompleteAt == {i \in 1 .. Len(sent) : sent[i].kind = "Complete"}

\* C9: at most one Complete is ever sent; it is the last message sent, no
\* worker holds an item and the Sender is gone when it is; once main has
\* taken it, nothing is left in the channel.
C9_CompleteOnceAndLast ==
    /\ Cardinality(CompleteAt) <= 1
    /\ \A i \in CompleteAt : i = Len(sent)
    /\ CompleteAt # {} =>
          /\ ~tx_alive
          /\ \A w \in Workers : wpc[w] = "idle"
          /\ \A i \in 1 .. Len(chan) : i < Len(chan) => chan[i].kind = "Progress"
    /\ cpc = "done" => chan = <<>> /\ ~tx_alive /\ CompleteAt # {}

\* Progress messages were sent and received, then the Complete.
C9_Witness ==
    /\ cpc = "done"
    /\ Len(sent) >= 3
    /\ Len(received) = Len(sent) - 1

\* C10 as stated, for a steps inside 1 .. i32::MAX: under fair scheduling a
\* running find_seeds_async eventually sends Complete.
C10_EventuallyComplete ==
    (mode = "async" /\ phase = "running" /\ step_size > 0) ~> (CompleteAt # {})

\* ------------------------------------------------- the two search modes
\* C11: for one finder with at most max_seeds matching seeds, the seeds of a
\* Complete sent by find_seeds_async are the seeds find_seeds returned,
\* whatever steps was.
C11_CompleteEqualsFindSeeds ==
    (probe.op = "find_seeds" /\ mode = "async"
        /\ Cardinality(MatchingSeeds(finder)) <= finder.max_seeds)
    => /\ \A i \in CompleteAt : Range(sent[i].seeds) = Range(probe.seeds)
       /\ cpc = "done" => Range(cseeds) = Range(probe.seeds)

\* Both searches found the two matching seeds; the streaming one reported
\* progress on every candidate, which were spread over the workers.
C11_Witness ==
    /\ probe.op = "find_seeds"
    /\ Len(probe.seeds) = 2
    /\ mode = "async"
    /\ step_size = 1
    /\ Len(finder.predictors) >= 1
    /\ cpc = "done"
    /\ Range(cseeds) = Range(probe.seeds)
    /\ \A w \in Workers : local[w] # {}

\* ------------------------------------------------ the consumer's deltas
RECURSIVE DeltaSum(_, _, _)

\* main's loop over the counts it received, from message i on: every count
\* adds `seeds_processed - last_progress` to the progress bar and becomes
\* last_progress.  acc is the position of the bar.  (On u64 a negative
\* difference panics or wraps; a wrapped sum is this sum modulo 2^64.)
DeltaSum(counts, i, acc) ==
    IF i > Len(counts) THEN acc
    ELSE DeltaSum(counts, i + 1,
                  acc + (counts[i] - (IF i = 1 THEN 0 ELSE counts[i - 1])))

\* The range does not end on a step boundary: the last step is shorter.
PartialLastStep == step_size > 0 /\ I32_MAX % step_size # 0

\* The multiples of the step width among the candidates.
StepBoundaries == {s \in Seeds : step_size > 0 /\ s % step_size = 0}

\* C12 as stated: while main has not failed, the deltas it has added up are
\* the step width times the number of Progress messages it has received; only
\* when the last step is a partial one and all steps have been received may
\* the sum stay within that last step.
C12_DeltaSumIsWidthTimesSteps ==
    (cpc \in {"recv", "done"} /\ step_size > 0 /\ received # <<>>) =>
        LET n == Len(received)
            sum == DeltaSum(received, 1, 0)
        IN \/ sum = step_size * n
           \/ /\ PartialLastStep
              /\ n = Cardinality(StepBoundaries)
              /\ step_size * (n - 1) < sum
              /\ sum <= step_size * n

\* ------------------------------------------------- errors during a scan
\* C13 as stated, for a search started with a valid steps: a predictor's
\* error on one candidate takes down neither the worker that met it nor the
\* search, and in streaming mode the Sender never goes away without a
\* terminal message having been sent.
C13_PredictorErrorIsRecoverable ==
    (mode = "sync" \/ (mode = "async" /\ step_size > 0)) =>
        /\ \A w \in Workers : wverdict[w] # "panic" /\ wpc[w] # "panicked"
        /\ phase # "panicked"
        /\ (mode = "async" /\ ~tx_alive) => CompleteAt # {}

\* ------------------------------------------- producers and the consumer
\* Whatever the holder of the Receiver does (never receives, receives late,
\* drops it), a worker that is to send can send, no worker fails for a reason
\* other than a predictor's error or a zero step width, and a search that
\* returns has reached the cap or used up the range.
ProducersIndependentOfConsumer ==
    /\ \A w \in Workers :
          (phase = "running" /\ wpc[w] = "send") => ENABLED SendProgress(w)
    /\ \A w \in Workers :
          wpc[w] = "panicked" => (wverdict[w] = "panic" \/ step_size = 0)
    /\ phase = "returned" => (TakeAnyFull \/ unclaimed = {})

\* C14 as stated: with a Receiver that is never polled, polled late or
\* dropped, a worker that is to send is never blocked, and a search started
\* with a steps of 1 .. i32::MAX stops in no other way than by returning with
\* the cap reached or the range used up.
C14_StopsOnlyByCapOrExhaustion ==
    /\ \A w \in Workers :
          (phase = "running" /\ wpc[w] = "send") => ENABLED SendProgress(w)
    /\ (mode = "async" /\ step_size > 0 /\ phase # "running") =>
          /\ phase = "returned"
          /\ TakeAnyFull \/ unclaimed = {}

\* ------------------------------------------------- SeedFinder::report
RECURSIVE ConcatReports(_, _, _, _)

\* What the predictors i .. k of the list write, each asked alone on the
\* state, one after the other.
ConcatReports(predictors, state, i, k) ==
    IF i > k THEN <<>>
    ELSE Report(predictors[i], state).out \o ConcatReports(predictors, state, i + 1, k)

\* The first predictor of the list whose report, asked alone on the state,
\* returns an error; one past the list when there is none.
FirstFailingReport(predictors, state) ==
    IF \E i \in 1 .. Len(predictors) : ~Report(predictors[i], state).ok
    THEN CHOOSE i \in 1 .. Len(predictors) :
            /\ ~Report(predictors[i], state).ok
            /\ \A j \in 1 .. (i - 1) : Report(predictors[j], state).ok
    ELSE Len(predictors) + 1

\* C15 as stated: a report asks every predictor of the list once, in list
\* order, and what is written is all their blocks in that order.
C15_Original_EveryPredictorReports ==
    probe.op = "finder_report" =>
        LET n == Len(finder.predictors)
        IN /\ probe.run.calls = [i \in 1 .. n |-> i]
           /\ probe.run.out = ConcatReports(finder.predictors, probe.run.state, 1, n)

\* C15 amended: the state of a report is the initial state with only the
\* seed replaced; the predictors are asked to report in list order, each at
\* most once, up to and including the first whose report returns an error
\* (all of them when none does); what is written is what those predictors
\* wrote, in that order; the call returns Ok exactly when no report failed;
\* the finder is the same after the call.
C15_ReportsInOrderUntilFirstError ==
    probe.op = "finder_report" =>
        LET n == Len(finder.predictors)
            st == probe.run.state
            k == FirstFailingReport(finder.predictors, st)
            last == IF k > n THEN n ELSE k
        IN /\ st.game_id = probe.seed
           /\ [st EXCEPT !.game_id = finder.initial_state.game_id]
                  = finder.initial_state
           /\ probe.run.calls = [i \in 1 .. last |-> i]
           /\ probe.run.out = ConcatReports(finder.predictors, st, 1, last)
           /\ probe.run.ok = (k > n)
           /\ finder = probe.finder

\* A report of two predictors, both of which wrote their block.
C15_Witness ==
    /\ probe.op = "finder_report"
    /\ Len(finder.predictors) = 2
    /\ probe.run.ok
    /\ probe.run.calls = <<1, 2>>
    /\ Len(probe.run.out) >= 2
    /\ probe.seed # finder.initial_state.game_id

\* C16 as stated: when main's loop over the found seeds has ended, every
\* found seed whose own report can be rendered has its report shown, each
\* once, whether or not the report of another found seed failed.
C16_ReportFailureIsLocalToItsSeed ==
    (probe.op = "main" /\ probe.status # "reporting") =>
        \A j \in 1 .. Len(probe.seeds) :
            FinderReport(finder, probe.seeds[j]).ok =>
                Cardinality({k \in 1 .. Len(probe.notes) :
                                probe.notes[k].seed = probe.seeds[j]}) = 1

\* ------------------------------------------------ building the finder
RECURSIVE Buildable(_, _)

\* The configuration node and every node nested in it can be built from the
\* game data.
Buildable(config, game_data) ==
    CASE config.type = "weather"     -> game_data.default_context
      [] config.type = "night_event" -> TRUE
      [] config.type = "geode"       ->
            ParsesAsItemId(config.item) /\ game_data.geodes
      [] config.type = "garbage"     ->
            /\ game_data.garbage_cans
            /\ \A j \in 1 .. Len(config.items) : ParsesAsItemId(config.items[j])
      [] config.type = "day_range"   -> Buildable(config.child, game_data)

\* C17: SeedFinder::new fails exactly when some predictor of the
\* configuration, at the top or nested under DayRanges, cannot be built; after
\* a failure there is no finder, and before a finder has been built no search
\* has started, no message has been sent and nothing has been received.
C17_BuildFailureBeforeAnySearch ==
    /\ probe.op \in {"built", "build_failed"} =>
          ((probe.op = "build_failed")
              = (\E i \in 1 .. Len(probe.config.predictors) :
                    ~Buildable(probe.config.predictors[i], probe.game_data)))
    /\ probe.op \in {"config", "build_failed"} =>
          /\ finder = NoFinder
          /\ mode = "new"
          /\ phase = "new"
          /\ sent = <<>>
          /\ received = <<>>
          /\ cpc = "none"
          /\ \A w \in Workers : wpc[w] = "idle" /\ wseed[w] = -1

\* The build failed on an item id two DayRanges down, behind a predictor
\* that could be built.
C17_Witness ==
    /\ probe.op = "build_failed"
    /\ Len(probe.config.predictors) = 2
    /\ Buildable(probe.config.predictors[1], probe.game_data)
    /\ probe.config.predictors[2].type = "day_range"
    /\ probe.config.predictors[2].child.type = "day_range"

RECURSIVE AllNodesUse(_, _)

\* The predictor and every predictor nested in it were built for generator G.
AllNodesUse(p, G) ==
    /\ p.rng = G
    /\ p.type = "day_range" => AllNodesUse(p.child, G)

\* C18: every node of a built finder's predictor graph, the children under
\* DayRanges at any depth included, was built for the one generator that
\* rng_type names, and stays so through the searches made with the finder.
C18_OneGeneratorForTheWholeGraph ==
    probe.op = "built" =>
        \A i \in 1 .. Len(finder.predictors) :
            AllNodesUse(finder.predictors[i], GeneratorOf(probe.config.rng_type))

\* A legacy finder with a predictor two DayRanges deep, during a search.
C18_Witness ==
    /\ probe.op = "built"
    /\ probe.config.rng_type = "legacy"
    /\ phase = "running"
    /\ \E i \in 1 .. Len(finder.predictors) :
          /\ finder.predictors[i].type = "day_range"
          /\ finder.predictors[i].child.type = "day_range"
          /\ finder.predictors[i].child.child.rng = "LegacySeedGenerator"

RECURSIVE DayBlocks(_, _, _, _)

\* For the days days[i], days[i+1], ...: the label of the day followed by
\* what the child, asked alone on that day, writes.
DayBlocks(p, state, days, i) ==
    IF i > Len(days) THEN <<>>
    ELSE <<Piece("Day", days[i], "")>>
         \o Report(p.child, WithDay(state, days[i])).out
         \o DayBlocks(p, state, days, i + 1)

\* The days of the interval on which the report cannot go on: the child's
\* predict returns an error, or it returns true and the child's report fails.
StoppingDays(p, state) ==
    DaysAnswering(p, state, "err")
    \cup {d \in DaysAnswering(p, state, "true") :
              ~Report(p.child, WithDay(state, d)).ok}

\* C20 as stated: the report has a block, labelled with the day, for exactly
\* the days of the interval on which the child's predict is true.
C20_Original_BlockForEveryTrueDay ==
    probe.op = "report" =>
        /\ Range(probe.out.reported) = DaysAnswering(probe.p, probe.state, "true")
        /\ probe.out.out
              = DayBlocks(probe.p, probe.state,
                          SetToSortedSeq(DaysAnswering(probe.p, probe.state, "true")), 1)

\* C20 amended: the report walks [start_day, end_day] upwards as far as the
\* first day on which the child's predict returns an error or the child's
\* report fails, and returns Ok exactly when there is no such day.  Up to
\* there it writes, in ascending order, one block labelled with the day for
\* each day on which the child's predict is true and nothing for the others.
\* When it returns Ok the reported days are the days predict counts.
C20_BlocksForTrueDaysUntilFirstError ==
    probe.op = "report" =>
        LET p == probe.p
            st == probe.state
            stops == StoppingDays(p, st)
            upto == IF stops = {} THEN p.end_day
                    ELSE CHOOSE d \in stops : \A e \in stops : d <= e
            days == SetToSortedSeq({d \in DaysAnswering(p, st, "true") : d <= upto})
        IN /\ probe.out.ok = (stops = {})
           /\ probe.out.reported = days
           /\ probe.out.out = DayBlocks(p, st, days, 1)
           /\ probe.out.ok =>
                 /\ Range(probe.out.reported) = DaysAnswering(p, st, "true")
                 /\ DayRangePredict(p, st).result
                        = BoolTri(Len(probe.out.reported) >= p.min_matches)

\* A report over [1, 6] that wrote a block for days 2, 4 and 6 and for no
\* other day.
C20_Witness ==
    /\ probe.op = "report"
    /\ probe.p.start_day = 1
    /\ probe.p.end_day = 6
    /\ probe.out.ok
    /\ probe.out.reported = <<2, 4, 6>>
    /\ Len(probe.out.out) >= 6

\* --------------------------------------------- DayRange::predict's calls
\* C21: a DayRange.predict that ends without error has asked its child once
\* for every day of [start_day, end_day], in ascending order: end_day -
\* start_day + 1 times (none when start_day > end_day), with no early exit
\* when the quorum is reached or out of reach.
C21_ChildAskedOncePerDay ==
    (probe.op = "predict" /\ probe.out.result # "err") =>
        LET p == probe.p
            n == IF p.end_day >= p.start_day THEN p.end_day - p.start_day + 1 ELSE 0
        IN /\ Len(probe.out.invoked) = n
           /\ probe.out.invoked = [i \in 1 .. n |-> p.start_day + i - 1]

\* The quorum of one was met on the first of six days and the child was
\* still asked on all six.
C21_Witness ==
    /\ probe.op = "predict"
    /\ probe.p.start_day = 1
    /\ probe.p.end_day = 6
    /\ probe.p.min_matches = 1
    /\ 1 \in DaysAnswering(probe.p, probe.state, "true")
    /\ probe.out.result = "true"
    /\ probe.out.invoked = <<1, 2, 3, 4, 5, 6>>

\* ---------------------------------------------------------------- Weather
\* C22 as stated: a Weather predictor returns true exactly when each flag
\* that is set holds of the predicted weather: maybe_storm wants a storm
\* probability above zero, is_storm one of at least 1, is_rain rain plus storm
\* of at least 1 (probabilities in tenths); a flag left false asks nothing.
C22_WeatherFlagsMeanWhatTheySay ==
    probe.op = "weather_predict" =>
        (probe.result = "true")
            = (/\ probe.p.is_rain => probe.weather.rain + probe.weather.storm >= 10
               /\ probe.p.is_storm => probe.weather.storm >= 10
               /\ probe.p.maybe_storm => probe.weather.storm > 0)

\* ------------------------------------------------------- the candidates
\* The candidates handed to workers so far.
Taken == Seeds \ unclaimed

\* C23: the candidates are the seeds 0 .. i32::MAX - 1 and no others; a
\* candidate a worker holds or has kept is held and kept by no other worker
\* and is not handed out again; a search that returns below the cap has
\* handed out every candidate; a returned list holds no seed twice.
C23_CandidatesOnceEach ==
    /\ unclaimed \subseteq 0 .. (I32_MAX - 1)
    /\ \A w \in Workers :
          /\ wseed[w] # -1 => (wseed[w] >= 0 /\ wseed[w] < I32_MAX)
          /\ wpc[w] # "idle" => wseed[w] \in Taken
          /\ local[w] \subseteq Taken
    /\ \A v, w \in Workers :
          v # w =>
             /\ local[v] \cap local[w] = {}
             /\ (wseed[v] # -1 /\ wseed[w] # -1) => wseed[v] # wseed[w]
             /\ wpc[v] # "idle" => wseed[v] \notin local[w]
    /\ (phase = "returned" /\ ~TakeAnyFull) => Taken = Seeds
    /\ \A l \in ReturnedLists :
          /\ Cardinality(Range(l)) = Len(l)
          /\ Range(l) \subseteq 0 .. (I32_MAX - 1)

\* A search that went through the whole range on two workers and returned
\* the last candidate, i32::MAX - 1, among others.
C23_Witness ==
    /\ phase = "returned"
    /\ unclaimed = {}
    /\ \A w \in Workers : wseed[w] # -1
    /\ Len(result) = 2
    /\ I32_MAX - 1 \in Range(result)
    /\ Len(finder.predictors) >= 1

\* C24: when the child returns an error on some day of the interval,
\* DayRange.predict returns an error and no boolean, whatever the days before
\* counted; the child was asked on the days from start_day to the first
\* erroring day and on no later day.  predict returns an error in no other
\* case.
C24_ChildErrorEndsPredictAtOnce ==
    probe.op = "predict" =>
        LET p == probe.p
            errs == DaysAnswering(p, probe.state, "err")
        IN /\ (probe.out.result = "err") = (errs # {})
           /\ errs # {} =>
                 LET d == CHOOSE e \in errs : \A f \in errs : e <= f
                 IN probe.out.invoked
                       = [i \in 1 .. (d - p.start_day + 1) |-> p.start_day + i - 1]

\* The child erred on a day before the last, after enough days had matched
\* to meet min_matches.
C24_Witness ==
    /\ probe.op = "predict"
    /\ probe.out.result = "err"
    /\ probe.p.min_matches >= 1
    /\ Len(probe.out.invoked) >= 2
    /\ probe.out.invoked[Len(probe.out.invoked)] < probe.p.end_day
    /\ Cardinality({d \in DaysAnswering(probe.p, probe.state, "true") :
                       d < probe.out.invoked[Len(probe.out.invoked)]})
          >= probe.p.min_matches

\* ------------------------------------------------ the number of steps
\* C25: for 1 <= steps <= i32::MAX and step width w = i32::MAX / steps, the
\* counts sent are pairwise distinct and none is above i32::MAX; when the
\* scan has gone through the whole range it has sent one Progress for every
\* multiple of w in the range, ceil(i32::MAX / w) in all, which is more than
\* steps when steps does not divide i32::MAX.
C25_ProgressMessagesOfAFullScan ==
    probe.op = "steps" =>
        LET w == probe.step_size
            vals == probe.values
        IN /\ \A i, j \in 1 .. Len(vals) : i # j => vals[i] # vals[j]
           /\ \A i \in 1 .. Len(vals) : vals[i] >= 1 /\ vals[i] <= probe.max
           /\ probe.pending = {} =>
                 /\ Len(vals) = (probe.max + w - 1) \div w
                 /\ Len(vals) = Cardinality({s \in 0 .. (probe.max - 1) : s % w = 0})
                 /\ Len(vals) >= probe.steps
                 /\ probe.max % probe.steps # 0 => Len(vals) > probe.steps

\* The same of a search of the finder: a find_seeds_async with a valid steps
\* that has returned with take_any not full.
ProgressOfAnExhaustedSearch ==
    LET vals == [i \in 1 .. Len(sent) |-> sent[i].count]
        n == Cardinality({i \in 1 .. Len(sent) : sent[i].kind = "Progress"})
    IN (mode = "async" /\ step_size > 0) =>
          /\ \A i, j \in 1 .. Len(sent) :
                (i # j /\ sent[i].kind = "Progress" /\ sent[j].kind = "Progress")
                    => vals[i] # vals[j]
          /\ \A i \in 1 .. Len(sent) :
                sent[i].kind = "Progress" => vals[i] <= I32_MAX
          /\ (phase = "returned" /\ ~TakeAnyFull) =>
                n = (I32_MAX + step_size - 1) \div step_size

\* Range 5 in 2 steps: width 2, a last step of one candidate, three
\* messages.
C25_Witness ==
    /\ probe.op = "steps"
    /\ probe.max = 5
    /\ probe.steps = 2
    /\ probe.pending = {}
    /\ Len(probe.values) = 3
    /\ Range(probe.values) = {1, 3, 5}

\* ------------------------------------------------- steps out of range
NoCompleteSent == \A i \in 1 .. Len(sent) : sent[i].kind # "Complete"

\* steps = 0: the division panics in the caller, before rayon::spawn and
\* before the Receiver is returned.
StepsZeroFailsFirst ==
    (mode = "async" /\ cpc = "none") =>
        /\ phase = "panicked"
        /\ \A w \in Workers : wpc[w] = "idle"
        /\ sent = <<>>
        /\ chan = <<>>
        /\ ~tx_alive
        /\ seeds_processed = 0

\* Step width 0: a worker that has a candidate is at the boundary test or
\* has panicked in it; no count is added or sent, no predictor is asked.
WidthZeroFailsOnTheBoundaryTest ==
    (mode = "async" /\ cpc # "none" /\ step_size = 0) =>
        /\ \A w \in Workers : wpc[w] \in {"idle", "step", "panicked"}
        /\ \A w \in Workers : wcalls[w] = <<>>
        /\ seeds_processed = 0
        /\ \A i \in 1 .. Len(sent) : sent[i].kind # "Progress"
        /\ unclaimed # Seeds => phase \in {"running", "panicked"}

\* C26 as stated: steps = 0 fails before any worker or Receiver exists, and
\* with steps > i32::MAX the width is 0, the boundary test fails and no
\* Complete is ever sent.
C26_Original_WidthZeroNeverCompletes ==
    /\ StepsZeroFailsFirst
    /\ WidthZeroFailsOnTheBoundaryTest
    /\ (mode = "async" /\ cpc # "none" /\ step_size = 0) => NoCompleteSent

\* C26: steps = 0 fails before any worker or Receiver exists; with steps >
\* i32::MAX the width is 0 and every candidate a worker takes fails in the
\* boundary test, so that no Complete is sent when max_seeds > 0.  With
\* max_seeds = 0 take_any is full from the start, no candidate is taken, and
\* the only message is Complete with no seeds.
C26_WidthZeroCompletesOnlyWithCapZero ==
    /\ StepsZeroFailsFirst
    /\ WidthZeroFailsOnTheBoundaryTest
    /\ (mode = "async" /\ cpc # "none" /\ step_size = 0) =>
          /\ finder.max_seeds > 0 => NoCompleteSent /\ phase # "returned"
          /\ finder.max_seeds = 0 =>
                /\ unclaimed = Seeds
                /\ \A w \in Workers : wpc[w] = "idle"
                /\ \A i \in 1 .. Len(sent) : sent[i] = CompleteMsg(<<>>)

\* A search with width 0 and a cap above 0 that has ended in the panic of
\* the boundary test.
C26_Witness ==
    /\ mode = "async"
    /\ cpc # "none"
    /\ step_size = 0
    /\ finder.max_seeds > 0
    /\ phase = "panicked"
    /\ \E w \in Workers : wpc[w] = "panicked"
    /\ ~tx_alive
    /\ NoCompleteSent

====
